---- MODULE Spec2Model ----
(***************************************************************************)
(* A model of libarc1: the execution engine of ArC1 (run_module,           *)
(* run_sequence, the worker threads, finish_op and the event buffer), the  *)
(* handshake of ArC1.initialise and generic_triplet_runner.                *)
(***************************************************************************)
EXTENDS Integers, Sequences, FiniteSets, TLC

(* ----------------------------- bounds ---------------------------------- *)

\* Records one Module.run delivers at most.
MaxResults == 1

\* Items the consumer lets accumulate in the buffer: a worker about to push
\* into a buffer this full waits for the consumer.
MaxBuffer == 2

\* Bytes of the confirmation line of the handshake, line terminator excluded.
MaxLineLen == 2

\* The largest magnitude of the value of an Integer field.
MaxInt == 12

\* The most items an IntegerList holds.
MaxListLen == 3

\* Result tuples the firmware sends for one device before it has to send a
\* tuple whose first field is <= 0.
MaxTuples == 2

(* ------------------------- values of the program ----------------------- *)

\* self._operation = None (arc.py:189).
None == 0

\* The worker threads of one behaviour, in the order they are created: a run
\* and the run after it.
Workers == {1, 2}

\* The threads that call the public API of one ArC1 object: c1 is the
\* application's main thread, which also iterates over the results; c2 is a
\* second thread that runs modules on the same Link.
Callers == {"c1", "c2"}

Consumer == "c1"

\* What the application does with the Link: its main thread runs modules
\* ("modules") or sequences ("sequences"), or two of its threads run
\* ReadMasked on the Link's own buffer ("threads").  In a fourth use,
\* "control", the main thread runs ReadMasked and also calls wait_on_op,
\* finish_op and _discard_buffer.
Apps == {"modules", "sequences", "threads"}

\* _buffer_impl (arc.py:156, arc.py:161).
BufferImpls == {"queue", "deque"}

\* Module subclasses, one for each way a built-in run() picks the sink of its
\* records: ReadMasked rebinds a local sink to instr.add_to_buffer
\* (readops.py:97-98), FormFinder passes self.sink (formfinder.py:73),
\* Endurance passes its own sink argument, which Module.__call__ leaves None
\* (endurance.py:53-57).
ModuleClasses == {"ReadMasked", "FormFinder", "Endurance"}

\* What a caller may pass as `target`: a Module subclass, a string tag, or
\* something that is neither.
Targets == ModuleClasses \cup {"tag:RM", "other:42"}

\* The device lists of a Sequence (device locators are abstracted to 1 and 2).
DevLists == {<< >>, <<1, 2>>}

\* The device list handed to run_module.
ModuleDevs == <<1, 2>>

\* The module lists of a Sequence (each entry stands for a (module, conf) pair).
ModLists == {<<"ReadMasked", "FormFinder">>, <<"Endurance">>, <<"tag:RM">>}

\* The `sink` attribute of the object handed to run_sequence: Sequence.__init__
\* (sequence.py:3-6) sets none ("missing"); a caller may attach one.
SinkAttrs == {"missing", "none", "custom"}

\* The `sink` argument of run_module.
SinkArgs == {"none", "custom"}

VARIABLES
    app,         \* what the application does with the Link
    impl,        \* _buffer_impl of this Link
    buffer,      \* self._buffer, as the container holds it (index 1 is the left end)
    operation,   \* self._operation: None or the id of a worker thread
    threads,     \* the worker threads created so far, by id
    caller,      \* per calling thread: where it is in run_module / run_sequence
    pending,     \* history: the items handed to add_to_buffer and not yet
                 \* returned by _get_from_buffer, oldest first
    got,         \* history: the item the last _get_from_buffer returned
    link,        \* the serial side of the Link while ArC1.initialise runs
    runner,      \* one call of generic_triplet_runner
    field,       \* one Field (params.py) and its encoding
    modules,     \* self.modules, the registry of Module classes by tag
    transport,   \* self.lock, self._port and the threads inside write and
                 \* write_packet
    links,       \* two Links and the ArC1Conf objects they refer to
    default_config,  \* the default_config dictionaries of FormFinder and
                 \* RampGenerator
    sequences    \* two Sequence objects and the lists they refer to

vars == <<app, impl, buffer, operation, threads, caller, pending, got,
          link, runner, field, modules, transport, links, default_config,
          sequences>>

\* The state of the execution engine.
engineVars == <<app, impl, buffer, operation, threads, caller, pending, got>>

\* What the engine, initialise and update_Vread, generic_triplet_runner and
\* the encoding of a Field leave alone.
notEngine ==
    <<link, runner, field, modules, transport, links, default_config,
      sequences>>

notLink ==
    <<engineVars, runner, field, modules, transport, links, default_config,
      sequences>>

notRunner ==
    <<engineVars, link, field, modules, transport, links, default_config,
      sequences>>

notField ==
    <<engineVars, link, runner, modules, transport, links, default_config,
      sequences>>

\* What register_module, write and write_packet, the Links of one process
\* and the run() of RampGenerator leave alone.
notModules ==
    <<engineVars, link, runner, field, transport, links, default_config,
      sequences>>

notTransport ==
    <<engineVars, link, runner, field, modules, links, default_config,
      sequences>>

notLinks ==
    <<engineVars, link, runner, field, modules, transport, default_config,
      sequences>>

notDefaults ==
    <<engineVars, link, runner, field, modules, transport, links, sequences>>

\* What add_module and add_device of a Sequence leave alone.
notSequences ==
    <<engineVars, link, runner, field, modules, transport, links,
      default_config>>

(* ------------------------- the handshake: values ----------------------- *)

\* READ_MODE.CLASSIC.
CLASSIC == 0

\* READ_MODE.TIA, READ_MODE.TIA4P and READ_MODE.TIA4P_NEG.
TIA == 1

TIA4P == 2

TIA4P_NEG == 3

\* ArC1.__init__ turns TIA4P into TIA4P_NEG when Vread is negative.
NormaliseConf(conf) ==
    IF conf.Vread < 0 /\ conf.read_mode = TIA4P
    THEN [conf EXCEPT !.read_mode = TIA4P_NEG]
    ELSE conf

\* The configurations a Link is constructed with; Vread is in millivolts.
Confs ==
    {NormaliseConf([read_mode |-> m, Vread |-> v]) :
        m \in {TIA, TIA4P}, v \in {500, -500}}

\* The default ArC1Conf: read_mode TIA4P, Vread 0.5 V.
DefaultConf == [read_mode |-> TIA4P, Vread |-> 500]

\* self._fw_version = None.
NoVersion == << >>

\* The bytes the firmware may answer the version query with, and what
\* read_bytes(4) may return: all four bytes, or fewer when the read times out.
ProbeBytes == {0, 1}

Replies == UNION {[1..n -> ProbeBytes] : n \in 0..4}

\* struct.unpack("2H", data) of four bytes: two unsigned 16-bit integers, low
\* byte first.
Unpack2H(data) == <<data[1] + 256 * data[2], data[3] + 256 * data[4]>>

\* What struct.unpack("2H", data) gives for a complete reply.
Versions == {Unpack2H(data) : data \in [1..4 -> ProbeBytes]}

\* The bytes a confirmation line is made of.
Digits == {"0", "1", "2"}

Chars == Digits \cup {"-", "a"}

\* What read_line may return, line terminator excluded; the empty line is
\* what a read that times out returns.
Lines == UNION {[1..n -> Chars] : n \in 0..MaxLineLen}

DigitValue(ch) == CASE ch = "0" -> 0 [] ch = "1" -> 1 [] ch = "2" -> 2

RECURSIVE NumeralValue(_)
NumeralValue(s) ==
    IF s = << >> THEN 0
    ELSE 10 * NumeralValue(SubSeq(s, 1, Len(s) - 1)) + DigitValue(s[Len(s)])

\* int(line): an optional sign and at least one digit, read in base 10;
\* anything else is a ValueError (ok = FALSE).
ParseInt(line) ==
    LET neg == line # << >> /\ line[1] = "-"
        body == IF neg THEN Tail(line) ELSE line
    IN IF body # << >> /\ \A i \in 1..Len(body) : body[i] \in Digits
       THEN [ok |-> TRUE,
             val |-> IF neg THEN -NumeralValue(body) ELSE NumeralValue(body)]
       ELSE [ok |-> FALSE, val |-> 0]

\* What is written to the port: the reset bytes, the packets INIT and
\* INIT_ACK, and the firmware-version query.
ResetBytes == [id |-> "00", args |-> << >>]

INIT(conf) == [id |-> "0", args |-> <<conf.read_mode, conf.Vread>>]

INIT_ACK(read_mode, read_voltage) ==
    [id |-> "01", args |-> <<read_mode, read_voltage>>]

VersionQuery == [id |-> "999", args |-> << >>]

\* A Link before initialise has run: `wire` is what the current call of
\* initialise has written to the port, `line` the confirmation line it has
\* read (`read` says whether it has read one), `err` the exception it raised,
\* `reply` the bytes read after the version query, `old` the configuration at
\* the start of the current call of update_Vread and `local` its locals:
\* <<val>>, then <<val, read_mode>>.  `held` counts the serial ports this
\* Link has opened and not closed.
NewLink(conf) ==
    [pc |-> "idle", port |-> "none", config |-> conf, fw_version |-> NoVersion,
     wire |-> << >>, line |-> << >>, read |-> FALSE, err |-> "",
     reply |-> << >>, old |-> conf, local |-> << >>, held |-> 0]

(* ------------------------------- Fields -------------------------------- *)

\* A Field of class `kind` holding `value`, not encoded yet: `bytes` is what
\* bytes(field) returned, `again` what a second bytes(field) returned.
NewField(kind, value) ==
    [pc |-> "new", kind |-> kind, value |-> value, bytes |-> << >>,
     again |-> << >>]

(* ---------------------- generic_triplet_runner: values ----------------- *)

\* The device lists of a call, as (word, bit) pairs.
DevOrders ==
    {<< <<1, 1>>, <<2, 2>> >>, << <<2, 2>>, <<1, 1>> >>, << <<1, 1>> >>}

\* The tuples (res, voltage, pw) the firmware may send.  res is in halves of
\* an ohm: 10.0, 8.0, 0.5, 0 and -1.0.
Triplets ==
    {<<20, 1, 1>>, <<16, 1, 1>>, <<1, 1, 1>>, <<0, 0, 0>>, <<-2, 0, 0>>}

\* int(res) of a res given in halves: the fraction is dropped, towards zero.
int(res) == IF res >= 0 THEN res \div 2 ELSE -((-res) \div 2)

\* DEVICE(word, bit).
DEVICE(dev) == [id |-> "dev", args |-> dev]

\* A call of generic_triplet_runner(instr, pkt, devs, sink) that has not
\* written anything: `reads` are the tuples read for each device, `sunk` the
\* records handed to the sink for each device, `di` the device of the loop.
NewRunner(devs) ==
    [pc |-> "pkt", devs |-> devs, di |-> 1, wire |-> << >>,
     reads |-> [d \in 1..Len(devs) |-> << >>],
     sunk |-> [d \in 1..Len(devs) |-> << >>]]

(* --------------------------- the module registry ----------------------- *)

\* The classes handed to the registration calls.  "ReadMasked", "FormFinder"
\* and "RampGenerator" are built in; the "User" classes are Module subclasses
\* of an application, two of them carrying the tag of ReadMasked and one the
\* tag of FormFinder; "dict" is a class that does not subclass Module.
RegClasses ==
    {"ReadMasked", "FormFinder", "RampGenerator", "UserForm", "UserNew",
     "UserRead", "UserRead2", "dict"}

\* issubclass(mod, modules.Module).
IsModule(mod) == mod # "dict"

\* The `tag` attribute of a Module subclass.
Tag(mod) ==
    CASE mod \in {"ReadMasked", "UserRead", "UserRead2"} -> "RM"
      [] mod \in {"FormFinder", "UserForm"} -> "FF"
      [] mod = "RampGenerator" -> "RMP"
      [] OTHER -> "NEW"

Tags == {"RM", "FF", "RMP", "NEW"}

\* A key self.modules does not hold.
NoClass == ""

\* What _open_modules_from_file returns for the files of an application:
\* the Module subclasses of the file in the order of inspect.getmembers, which
\* sorts by name.
ModuleFiles ==
    {<<"UserForm", "UserRead">>, <<"UserRead", "UserRead2">>,
     <<"UserNew">>, << >>}

\* self.modules = {} followed by _load_builtin_modules.
BuiltinModules ==
    [t \in Tags |->
        CASE t = "RM" -> "ReadMasked"
          [] t = "FF" -> "FormFinder"
          [] t = "RMP" -> "RampGenerator"
          [] OTHER -> NoClass]

\* The registry of a constructed Link.  `api`, `args`, `before` and `res`
\* record the last registration call: the classes it was about, the registry
\* it found, and how it returned.
NewRegistry ==
    [map |-> BuiltinModules, api |-> "", args |-> << >>,
     before |-> BuiltinModules, res |-> ""]

(* ------------------------ write and write_packet: values --------------- *)

\* The threads that write to the port.
Writers == {"t1", "t2"}

\* The calls one thread makes.
MaxCalls == 2

\* The numbers of Fields of the packets handed to write_packet.
PacketLens == {2, 3}

\* threading.Lock() not held.
Unlocked == ""

\* A thread outside write and write_packet: `api` is the call it is in, `n`
\* the number of parts the call writes, `k` the next part, `calls` the calls
\* it has started.
IdleWriter == [pc |-> "idle", api |-> "", n |-> 0, k |-> 0, calls |-> 0]

\* The write side of a Link: `log` is what the port and time.sleep saw, in
\* order.
NewTransport ==
    [lock |-> Unlocked, thr |-> [t \in Writers |-> IdleWriter], log |-> << >>]

(* ------------------------- two Links: values --------------------------- *)

LinkNames == {"A", "B"}

\* The ArC1Conf objects of the process: "default" is the one the `def` of
\* ArC1.__init__ created for its `config` parameter, "a" and "b" are objects
\* an application created and passed.
ConfObjects == {"default", "a", "b"}

\* The object ArC1.__init__ stores in self._config: the one passed, or the
\* default of the parameter.
ConfigArg(name, explicit) ==
    IF explicit THEN (IF name = "A" THEN "a" ELSE "b") ELSE "default"

\* The voltages handed to update_Vread of these Links, in millivolts.
LinkVoltages == {-500, 0, 500, 12001}

\* Nothing has been called on either Link yet.
NoCall == [by |-> "", op |-> "", before |-> << >>, res |-> ""]

(* ---------------------- default_config: values ------------------------- *)

\* SERIES_RES.R1K and SERIES_RES.R0.
R1K == 1

R0 == 7

\* FormFinder.default_config, voltages in millivolts, durations in
\* microseconds, resistances in ohms.
FormFinderDefault ==
    [mode |-> 0, PWnum |-> 1, Vmin |-> 250, Vstep |-> 250, Vmax |-> 3000,
     PWmin |-> 100, PWstep |-> 100, PWmax |-> 1000, PWinter |-> 10000,
     Rthr |-> 1000000, RthrP |-> 0, pSR |-> R0]

\* RampGenerator.default_config.
RampGeneratorDefault ==
    [PWnum |-> 1, Vmin |-> 1000, Vstep |-> 250, Vmax |-> 1000, PW |-> 100,
     interpulse |-> 10000, pSR |-> R0]

\* The configurations an application hands to RampGenerator.run.
RampConfs ==
    {[PWnum |-> n, Vmin |-> lo, Vstep |-> 250, Vmax |-> hi, PW |-> pw,
      interpulse |-> 10000, pSR |-> sr] :
        n \in {1, 2}, lo \in {500, 1000}, hi \in {1000, 2000},
        pw \in {100, 200}, sr \in {R1K, R0}}

\* No FF_PKT has been built.
NoPacket == << >>

\* The class attributes after the import of formfinder.py.  `pc`, `cls`,
\* `conf` and `pkt` are one call of run(): where it is, the class it belongs
\* to, the conf it was given, and the configuration its FF_PKT was built from.
NewDefaults ==
    [FormFinder |-> FormFinderDefault, RampGenerator |-> RampGeneratorDefault,
     pc |-> "idle", cls |-> "", conf |-> << >>, pkt |-> NoPacket]

(* ------------------------------ at rest -------------------------------- *)

\* Two Links constructed with `explicit` telling which of them was given a
\* config; every ArC1Conf object is ArC1Conf() with Vread `v` (in
\* millivolts), and __init__ has corrected the read mode of the objects in
\* use.
NewLinks(explicit, v) ==
    LET ref == [l \in LinkNames |-> ConfigArg(l, explicit[l])]
        used == {ref[l] : l \in LinkNames}
    IN [heap |-> [o \in ConfObjects |->
                    IF o \in used /\ o # "default"
                    THEN NormaliseConf([read_mode |-> TIA4P, Vread |-> v])
                    ELSE DefaultConf],
        ref |-> ref, last |-> NoCall]

(* --------------------------- Sequences: values ------------------------- *)

SequenceNames == {"s1", "s2"}

\* The items one list of a Sequence holds at most.
MaxSeqItems == 2

\* The list objects of the process: "mods" and "devs" are the two lists the
\* `def` of Sequence.__init__ created for its parameters; the others are lists
\* an application created and passed to the constructor of s1 or of s2.
ListObjects == {"mods", "devs", "mods:s1", "devs:s1", "mods:s2", "devs:s2"}

\* The object Sequence.__init__ stores in self._mods or self._devs: the list
\* passed, or the default of the parameter.
ListArg(name, attr, explicit) ==
    IF explicit THEN attr \o ":" \o name ELSE attr

\* The devices handed to add_device and the modules handed to add_module.
SeqDevices == {1, 2}

SeqModules == {"ReadMasked"}

\* Two Sequences constructed, with `explicit` telling which of them was given
\* lists of its own; every list is empty.  `last` records the last call.
NewSequences(explicit) ==
    [heap |-> [o \in ListObjects |-> << >>],
     mods |-> [s \in SequenceNames |-> ListArg(s, "mods", explicit[s])],
     devs |-> [s \in SequenceNames |-> ListArg(s, "devs", explicit[s])],
     last |-> [by |-> "", op |-> "", mods |-> << >>, devs |-> << >>]]

\* Registry, port, Links, class attributes and Sequences with nothing called
\* on them.
RestIdle ==
    /\ modules = NewRegistry
    /\ transport = NewTransport
    /\ links = NewLinks([l \in LinkNames |-> FALSE], 500)
    /\ default_config = NewDefaults
    /\ sequences = NewSequences([s \in SequenceNames |-> FALSE])

(* ------------------------------ events --------------------------------- *)

\* A status envelope (json.dumps({...}) in arc.py), a record of a module, or
\* the sentinel.  `run` and `at` are history tags: the worker that emitted
\* the item, and the iteration <<device index, module index>> of a sequence
\* it was emitted in (<<0, 0>> outside the loops).
Envelope(run, status, scope, name, devs, at) ==
    [run |-> run, ev |-> status, scope |-> scope, name |-> name,
     devs |-> devs, n |-> 0, at |-> at]

ResultRecord(run, name, devs, n, at) ==
    [run |-> run, ev |-> "result", scope |-> "mod", name |-> name,
     devs |-> devs, n |-> n, at |-> at]

Sentinel(run) ==
    [run |-> run, ev |-> "sentinel", scope |-> "", name |-> "",
     devs |-> << >>, n |-> 0, at |-> <<0, 0>>]

\* No item yet.
NoItem ==
    [run |-> 0, ev |-> "", scope |-> "", name |-> "", devs |-> << >>, n |-> 0,
     at |-> <<0, 0>>]

(* --------------------------- the event buffer -------------------------- *)

\* A mutant of AddToBuffer: the deque is filled from the same end it is
\* emptied from.
AddToBufferSameEnd(buf, item) ==
    Append(buf, item)

\* add_to_buffer: Queue.put appends to the right end of the queue; deque
\* appendleft adds to the left end.
AddToBuffer(buf, item) ==
    IF impl = "queue" THEN Append(buf, item) ELSE <<item>> \o buf

\* _items_in_buffer
ItemsInBuffer(buf) == Len(buf)

\* _get_from_buffer, the item returned: Queue.get takes the leftmost item,
\* __deque_get pops the rightmost.
GetItem(buf) ==
    IF impl = "queue" THEN Head(buf) ELSE buf[Len(buf)]

\* _get_from_buffer, the container after the call.
GetRest(buf) ==
    IF impl = "queue" THEN Tail(buf) ELSE SubSeq(buf, 1, Len(buf) - 1)

\* The items of the container in the order _get_from_buffer will return them.
DrainOrder(buf) ==
    IF impl = "queue" THEN buf
    ELSE [i \in 1..Len(buf) |-> buf[Len(buf) + 1 - i]]

\* sink(item) for the sink a worker or a module is bound to; a caller-supplied
\* sink is outside the Link and keeps the item.
Emit(sink, item) ==
    IF sink = "buffer"
    THEN /\ ItemsInBuffer(buffer) < MaxBuffer
         /\ buffer' = AddToBuffer(buffer, item)
         /\ pending' = Append(pending, item)
    ELSE UNCHANGED <<buffer, pending>>

NoEmit == UNCHANGED <<buffer, pending>>

(* ------------------------------ threads -------------------------------- *)

\* threading.Thread(target=wrapper, name=...) (arc.py:498, arc.py:523): the
\* closure of wrapper and the thread's position in it.  `epoch` is a history
\* tag: how many workers existed when the caller made its exclusivity check.
NewThread(kind, name, sink, target, devs, mods, epoch) ==
    [kind |-> kind, name |-> name, sink |-> sink, target |-> target,
     devs |-> devs, mods |-> mods, di |-> 0, mi |-> 0, n |-> 0,
     pc |-> "created", join |-> None, epoch |-> epoch, sent |-> 0, seen |-> 0]

\* The thread object once wrapper has returned ("done") or an exception has
\* left it ("raised"): its name stays, its closure is garbage.  `sent` and
\* `seen` are history tags: the sentinels the worker pushed, and those of them
\* the consumer has read.
Ended(t, pc) ==
    [kind |-> "", name |-> t.name, sink |-> "", target |-> "",
     devs |-> << >>, mods |-> << >>, di |-> 0, mi |-> 0, n |-> 0,
     pc |-> pc, join |-> None, epoch |-> -1, sent |-> t.sent, seen |-> t.seen]

ThreadIds == 1..Len(threads)

Terminated(t) == threads[t].pc \in {"done", "raised"}

Started(t) == threads[t].pc # "created"

Alive(t) == Started(t) /\ ~Terminated(t)

\* A calling thread outside any call of the API.
IdleCaller ==
    [pc |-> "idle", api |-> "", target |-> "", sink |-> "", devs |-> << >>,
     mods |-> << >>, epoch |-> 0, res |-> "", name |-> "",
     saw |-> None, join |-> None]

\* A calling thread whose call has just ended: `res` is "iterator" or the
\* exception raised, `name` the op_name of an OperationInProgress.
Returned(api, res, name) ==
    [pc |-> "returned", api |-> api, target |-> "", sink |-> "",
     devs |-> << >>, mods |-> << >>, epoch |-> 0, res |-> res, name |-> name,
     saw |-> None, join |-> None]

\* Calls that passed the exclusivity check and have not installed a handle yet.
PendingInstalls == Cardinality({c \in Callers : caller[c].pc = "install"})

\* A call that passes the exclusivity check will find a worker to create.
CanAccept == Len(threads) + PendingInstalls < Cardinality(Workers)

Init ==
    /\ app \in Apps
    /\ impl \in BufferImpls
    /\ buffer = << >>
    /\ operation = None
    /\ threads = << >>
    /\ caller = [c \in Callers |-> IdleCaller]
    /\ pending = << >>
    /\ got = NoItem
    /\ link = NewLink(DefaultConf)
    /\ runner = NewRunner(<< >>)
    /\ field = NewField("Integer", 0)
    /\ RestIdle

(* ---------------------- run_module and run_sequence -------------------- *)

\* The call `api` of thread c ends, with an iterator or an exception.
Return(c, api, res, name) ==
    caller' = [caller EXCEPT ![c] = Returned(api, res, name)]

\* `self._operation is not None` (arc.py:478, arc.py:509).
OperationIsActive == operation # None

\* The exclusivity check of _wrap_op and _wrap_sequence and what follows it
\* in the calling thread up to the next access to self._operation.
Check(c, api, target, sink, devs, mods) ==
    caller' = [caller EXCEPT ![c] =
        [pc |-> IF OperationIsActive THEN "raise" ELSE "install",
         api |-> api, target |-> target, sink |-> sink, devs |-> devs,
         mods |-> mods, epoch |-> Len(threads), res |-> "", name |-> "",
         saw |-> operation, join |-> None]]

\* _module_from_arg (arc.py:560-569): a Module subclass is instantiated with
\* the sink; for anything else line 564 evaluates the undefined name `target`.
ModuleFromArg(arg) ==
    IF arg \in ModuleClasses THEN "module" ELSE "NameError"

\* Module.__init__ (modules/__init__.py:6-11): the sink the module is bound to.
BoundSink(sinkArg) ==
    IF sinkArg = "none" THEN "buffer" ELSE "custom"

\* run_module (arc.py:571-583) up to and including the check of _wrap_op
\* (arc.py:509).
RunModuleCall(c) ==
    /\ caller[c].pc = "idle"
    /\ \E target \in Targets, sinkArg \in SinkArgs :
        /\ \/ app = "modules" /\ c = Consumer
           \/ app = "threads" /\ target = "ReadMasked" /\ sinkArg = "none"
           \/ /\ app = "control" /\ c = Consumer
              /\ target = "ReadMasked" /\ sinkArg = "none"
        /\ IF ModuleFromArg(target) = "NameError"
           THEN Return(c, "run_module", "NameError", "")
           ELSE /\ OperationIsActive \/ CanAccept
                /\ Check(c, "run_module", target, BoundSink(sinkArg),
                         ModuleDevs, << >>)
    /\ UNCHANGED <<app, impl, buffer, operation, threads, pending, got>>

\* run_sequence (arc.py:585-586) and _wrap_sequence up to and including its
\* check (arc.py:473-478): `sequence.sink` is read first.
RunSequenceCall(c) ==
    /\ app = "sequences" /\ c = Consumer
    /\ caller[c].pc = "idle"
    /\ \E sinkAttr \in SinkAttrs, devs \in DevLists, mods \in ModLists :
        IF sinkAttr = "missing"
        THEN Return(c, "run_sequence", "AttributeError", "")
        ELSE /\ OperationIsActive \/ CanAccept
             /\ Check(c, "run_sequence", "", BoundSink(sinkAttr), devs, mods)
    /\ UNCHANGED <<app, impl, buffer, operation, threads, pending, got>>

\* `raise OperationInProgress(self._operation.name)` (arc.py:479, arc.py:510):
\* self._operation is read a second time.
RunRaise(c) ==
    /\ caller[c].pc = "raise"
    /\ IF operation = None
       THEN Return(c, caller[c].api, "AttributeError", "")
       ELSE Return(c, caller[c].api, "OperationInProgress",
                   threads[operation].name)
    /\ UNCHANGED <<app, impl, buffer, operation, threads, pending, got>>

\* mod.name (the class attribute `name`) or sequence.name.
ThreadName(api, target) ==
    IF api = "run_module" THEN target ELSE "sequence"

\* `self._operation = threading.Thread(target=wrapper, name=...)`
\* (arc.py:498, arc.py:523).
RunInstall(c) ==
    /\ caller[c].pc = "install"
    /\ threads' = Append(threads,
          NewThread(IF caller[c].api = "run_module" THEN "mod" ELSE "seq",
                    ThreadName(caller[c].api, caller[c].target),
                    caller[c].sink, caller[c].target, caller[c].devs,
                    caller[c].mods, caller[c].epoch))
    /\ operation' = Len(threads) + 1
    /\ caller' = [caller EXCEPT ![c].pc = "start"]
    /\ UNCHANGED <<app, impl, buffer, pending, got>>

\* `self._operation.start()` and `return iter(self._get_from_buffer, None)`
\* (arc.py:499-501, arc.py:524-526): self._operation is read again.
RunStart(c) ==
    /\ caller[c].pc = "start"
    /\ IF operation = None
       THEN /\ Return(c, caller[c].api, "AttributeError", "")
            /\ UNCHANGED threads
       ELSE IF Started(operation)
       THEN /\ Return(c, caller[c].api, "RuntimeError", "")
            /\ UNCHANGED threads
       ELSE /\ threads' = [threads EXCEPT ![operation].pc = "begin"]
            /\ Return(c, caller[c].api, "iterator", "")
    /\ UNCHANGED <<app, impl, buffer, operation, pending, got>>

\* The calling thread goes on after its call (it keeps the iterator, or
\* handles the exception).
Resume(c) ==
    /\ caller[c].pc = "returned"
    /\ caller' = [caller EXCEPT ![c] = IdleCaller]
    /\ UNCHANGED <<app, impl, buffer, operation, threads, pending, got>>

(* ------------------------------ finish_op ------------------------------ *)

SetThread(w, rec) == threads' = [threads EXCEPT ![w] = rec]

Goto(w, pc) == SetThread(w, [threads[w] EXCEPT !.pc = pc])

\* An exception leaves wrapper: the thread ends.
Raise(w) == SetThread(w, Ended(threads[w], "raised"))

\* finish_op called by worker w (arc.py:518, arc.py:493), its first line:
\* `if self._operation is not threading.current_thread()` (arc.py:430).
FinishOpTest(w) ==
    /\ threads[w].pc = "finish"
    /\ Goto(w, IF operation # w THEN "join" ELSE "clear")
    /\ UNCHANGED <<app, impl, operation, caller, got>>
    /\ NoEmit

\* `self._operation.join()` (arc.py:431): self._operation is read again; None
\* has no join (AttributeError) and a thread that was never started cannot be
\* joined (RuntimeError).  Either exception ends the worker.
FinishOpJoin(w) ==
    /\ threads[w].pc = "join"
    /\ IF operation = None \/ ~Started(operation)
       THEN Raise(w)
       ELSE SetThread(w, [threads[w] EXCEPT !.pc = "joining", !.join = operation])
    /\ UNCHANGED <<app, impl, operation, caller, got>>
    /\ NoEmit

\* Thread.join returns once the joined thread has terminated.
FinishOpJoined(w) ==
    /\ threads[w].pc = "joining"
    /\ Terminated(threads[w].join)
    /\ SetThread(w, [threads[w] EXCEPT !.pc = "clear", !.join = None])
    /\ UNCHANGED <<app, impl, operation, caller, got>>
    /\ NoEmit

\* A mutant of FinishOpClear: finish_op leaves the handle in place.
FinishOpKeepsHandle(w) ==
    /\ threads[w].pc = "clear"
    /\ Goto(w, "end")
    /\ UNCHANGED <<app, impl, operation, caller, got>>
    /\ NoEmit

\* `self._operation = None` (arc.py:432).
FinishOpClear(w) ==
    /\ threads[w].pc = "clear"
    /\ operation' = None
    /\ Goto(w, "end")
    /\ UNCHANGED <<app, impl, caller, got>>
    /\ NoEmit

(* ----------------------------- Module.run ------------------------------ *)

\* Where run() of a module delivers a record: "none" is sink=None, and calling
\* it raises TypeError.
RecordSink(class, bound) ==
    CASE class = "ReadMasked" -> "buffer"
      [] class = "FormFinder" -> bound
      [] OTHER -> "none"

\* mod(devs, conf) (Module.__call__, modules/__init__.py:13-14) on `devs`, one
\* step of it for worker w whose body is at `here`: deliver one more record,
\* return (to pc `next`), or raise (a transport or decoding failure).
ModuleRun(w, here, class, devs, next) ==
    /\ threads[w].pc = here
    /\ \/ /\ threads[w].n < MaxResults
          /\ IF RecordSink(class, threads[w].sink) = "none"
             THEN /\ Raise(w)
                  /\ NoEmit
             ELSE /\ SetThread(w, [threads[w] EXCEPT !.n = @ + 1])
                  /\ Emit(RecordSink(class, threads[w].sink),
                          ResultRecord(w, class, devs, threads[w].n + 1,
                                       <<threads[w].di, threads[w].mi>>))
       \/ /\ SetThread(w, [threads[w] EXCEPT !.pc = next, !.n = 0])
          /\ NoEmit
       \/ /\ Raise(w)
          /\ NoEmit
    /\ UNCHANGED <<app, impl, operation, caller, got>>

(* ------------------------- the worker of _wrap_op ---------------------- *)

\* wrapper of _wrap_op, arc.py:515-516: the begin envelope.
OpBegin(w) ==
    /\ threads[w].kind = "mod" /\ threads[w].pc = "begin"
    /\ Emit(threads[w].sink,
            Envelope(w, "begin", "mod", threads[w].target, threads[w].devs,
                     <<0, 0>>))
    /\ Goto(w, "body")
    /\ UNCHANGED <<app, impl, operation, caller, got>>

\* arc.py:517: mod(devs, conf); finish_op follows a normal return.
OpBody(w) ==
    /\ threads[w].kind = "mod"
    /\ ModuleRun(w, "body", threads[w].target, threads[w].devs, "finish")

\* arc.py:519-520: the end envelope.
OpEnd(w) ==
    /\ threads[w].kind = "mod" /\ threads[w].pc = "end"
    /\ Emit(threads[w].sink,
            Envelope(w, "end", "mod", threads[w].target, << >>, <<0, 0>>))
    /\ Goto(w, "sentinel")
    /\ UNCHANGED <<app, impl, operation, caller, got>>

\* arc.py:521 and arc.py:496: sink(None), after which wrapper returns.
PushSentinel(w) ==
    /\ threads[w].pc = "sentinel"
    /\ Emit(threads[w].sink, Sentinel(w))
    /\ SetThread(w, Ended([threads[w] EXCEPT !.sent = @ + 1], "done"))
    /\ UNCHANGED <<app, impl, operation, caller, got>>

(* ---------------------- the worker of _wrap_sequence ------------------- *)

\* The loops of wrapper (arc.py:484-485) are at device di, module mi: where
\* the worker goes after the body of (di, mi), given as (0, 0) before the
\* first iteration.
SeqAdvance(t, di, mi) ==
    IF t.devs = << >> \/ t.mods = << >>
    THEN [t EXCEPT !.pc = "finish", !.di = 0, !.mi = 0]
    ELSE IF di = 0
    THEN [t EXCEPT !.pc = "mbegin", !.di = 1, !.mi = 1]
    ELSE IF mi < Len(t.mods)
    THEN [t EXCEPT !.pc = "mbegin", !.mi = mi + 1]
    ELSE IF di < Len(t.devs)
    THEN [t EXCEPT !.pc = "mbegin", !.di = di + 1, !.mi = 1]
    ELSE [t EXCEPT !.pc = "finish", !.di = 0, !.mi = 0]

\* arc.py:482-483: the begin envelope of the sequence.
SeqBegin(w) ==
    /\ threads[w].kind = "seq" /\ threads[w].pc = "begin"
    /\ Emit(threads[w].sink,
            Envelope(w, "begin", "seq", threads[w].name, threads[w].devs,
                     <<0, 0>>))
    /\ SetThread(w, SeqAdvance(threads[w], 0, 0))
    /\ UNCHANGED <<app, impl, operation, caller, got>>

\* arc.py:486-489: the module is resolved (an exception ends the worker) and
\* its begin envelope pushed, with devs = [dev].
SeqModBegin(w) ==
    /\ threads[w].kind = "seq" /\ threads[w].pc = "mbegin"
    /\ LET t == threads[w]
           class == t.mods[t.mi]
       IN IF ModuleFromArg(class) = "NameError"
          THEN /\ Raise(w)
               /\ NoEmit
          ELSE /\ Emit(t.sink, Envelope(w, "begin", "mod", class,
                                        <<t.devs[t.di]>>, <<t.di, t.mi>>))
               /\ Goto(w, "mbody")
    /\ UNCHANGED <<app, impl, operation, caller, got>>

\* arc.py:490: mod([dev], conf).
SeqModBody(w) ==
    /\ threads[w].kind = "seq" /\ threads[w].pc = "mbody"
    /\ ModuleRun(w, "mbody", threads[w].mods[threads[w].mi],
                 <<threads[w].devs[threads[w].di]>>, "mend")

\* arc.py:491-492: the end envelope of the module, then the next iteration.
SeqModEnd(w) ==
    /\ threads[w].kind = "seq" /\ threads[w].pc = "mend"
    /\ Emit(threads[w].sink,
            Envelope(w, "end", "mod", threads[w].mods[threads[w].mi], << >>,
                     <<threads[w].di, threads[w].mi>>))
    /\ SetThread(w, SeqAdvance(threads[w], threads[w].di, threads[w].mi))
    /\ UNCHANGED <<app, impl, operation, caller, got>>

\* arc.py:494-495: the end envelope of the sequence.
SeqEnd(w) ==
    /\ threads[w].kind = "seq" /\ threads[w].pc = "end"
    /\ Emit(threads[w].sink,
            Envelope(w, "end", "seq", threads[w].name, << >>, <<0, 0>>))
    /\ Goto(w, "sentinel")
    /\ UNCHANGED <<app, impl, operation, caller, got>>

(* ----------------------------- the consumer ---------------------------- *)

\* One next() of the iterator iter(self._get_from_buffer, None) (arc.py:501,
\* arc.py:526): blocks while the buffer is empty.
Consume ==
    /\ caller[Consumer].pc = "idle"
    /\ ItemsInBuffer(buffer) # 0
    /\ got' = GetItem(buffer)
    /\ buffer' = GetRest(buffer)
    /\ pending' = Tail(pending)
    /\ threads' = IF GetItem(buffer).ev = "sentinel"
                  THEN [threads EXCEPT ![GetItem(buffer).run].seen = @ + 1]
                  ELSE threads
    /\ UNCHANGED <<app, impl, operation, caller>>

(* --------------------------- the specification ------------------------- *)

Next ==
    \/ \E c \in Callers : RunModuleCall(c) /\ UNCHANGED notEngine
    \/ \E c \in Callers : RunSequenceCall(c) /\ UNCHANGED notEngine
    \/ \E c \in Callers : RunRaise(c) /\ UNCHANGED notEngine
    \/ \E c \in Callers : RunInstall(c) /\ UNCHANGED notEngine
    \/ \E c \in Callers : RunStart(c) /\ UNCHANGED notEngine
    \/ \E c \in Callers : Resume(c) /\ UNCHANGED notEngine
    \/ \E w \in ThreadIds : OpBegin(w) /\ UNCHANGED notEngine
    \/ \E w \in ThreadIds : OpBody(w) /\ UNCHANGED notEngine
    \/ \E w \in ThreadIds : FinishOpTest(w) /\ UNCHANGED notEngine
    \/ \E w \in ThreadIds : FinishOpJoin(w) /\ UNCHANGED notEngine
    \/ \E w \in ThreadIds : FinishOpJoined(w) /\ UNCHANGED notEngine
    \/ \E w \in ThreadIds : FinishOpClear(w) /\ UNCHANGED notEngine
    \/ \E w \in ThreadIds : OpEnd(w) /\ UNCHANGED notEngine
    \/ \E w \in ThreadIds : PushSentinel(w) /\ UNCHANGED notEngine
    \/ \E w \in ThreadIds : SeqBegin(w) /\ UNCHANGED notEngine
    \/ \E w \in ThreadIds : SeqModBegin(w) /\ UNCHANGED notEngine
    \/ \E w \in ThreadIds : SeqModBody(w) /\ UNCHANGED notEngine
    \/ \E w \in ThreadIds : SeqModEnd(w) /\ UNCHANGED notEngine
    \/ \E w \in ThreadIds : SeqEnd(w) /\ UNCHANGED notEngine
    \/ Consume /\ UNCHANGED notEngine

Spec == Init /\ [][Next]_vars

(* ------------------------- exclusivity of runs ------------------------- *)

\* C1: whenever an Operation handle exists, a call to run_module or
\* run_sequence raises OperationInProgress carrying the name of the active
\* worker, starts no worker thread, leaves the handle in place and adds
\* nothing to the event buffer.
C1_BusyLinkRejectsRun ==
    [][\A c \in Callers :
          /\ (operation # None /\ caller[c].pc = "idle" /\ caller'[c].pc # "idle")
                => /\ caller'[c].pc = "raise"
                   /\ UNCHANGED <<operation, threads, buffer>>
          /\ (operation # None /\ caller[c].pc = "raise" /\ caller'[c].pc # "raise")
                => /\ caller'[c].res = "OperationInProgress"
                   /\ caller'[c].name = threads[operation].name
                   /\ UNCHANGED <<operation, threads, buffer>>]_vars

\* The consumer has read the sentinel of the latest run.
LatestRunRead ==
    /\ threads # << >>
    /\ threads[Len(threads)].seen > 0

C3_ExactlyOneSentinel ==
    \A w \in ThreadIds : Terminated(w) => threads[w].sent = 1

\* C4: when the body has raised inside the worker, the Operation handle is no
\* longer that worker once the worker has ended.
C4_HandleClearedWhenBodyRaises ==
    \A w \in ThreadIds : threads[w].pc = "raised" => operation # w

\* C5: of the calls that made their exclusivity check on the same idle Link
\* (before any of them installed its handle) at most one is accepted: no two
\* workers are created for the same check epoch.
C5_AtMostOneAccepted ==
    \A v, w \in ThreadIds :
        (v # w /\ threads[v].epoch = threads[w].epoch) => threads[v].epoch = -1

(* ------------------------------ sequences ------------------------------ *)

\* Item y may directly follow item x in the event stream of a sequence over
\* `devs` and `mods`.
Follows(x, y, devs, mods) ==
    LET di == x.at[1]
        mi == x.at[2]
        BeginMod(d, m) ==
            /\ y.ev = "begin" /\ y.scope = "mod" /\ y.at = <<d, m>>
            /\ y.devs = <<devs[d]>> /\ y.name = mods[m]
        EndSeq == y.ev = "end" /\ y.scope = "seq"
        InBody ==
            /\ y.at = x.at /\ y.name = x.name
            /\ \/ y.ev = "result" /\ y.n = x.n + 1 /\ y.devs = <<devs[di]>>
               \/ y.ev = "end" /\ y.scope = "mod"
    IN CASE x.ev = "begin" /\ x.scope = "seq" ->
               IF devs = << >> \/ mods = << >> THEN EndSeq ELSE BeginMod(1, 1)
         [] x.ev = "begin" /\ x.scope = "mod" -> InBody
         [] x.ev = "result" -> InBody
         [] x.ev = "end" /\ x.scope = "mod" ->
               IF mi < Len(mods) THEN BeginMod(di, mi + 1)
               ELSE IF di < Len(devs) THEN BeginMod(di + 1, 1)
               ELSE EndSeq
         [] x.ev = "end" /\ x.scope = "seq" -> y.ev = "sentinel"
         [] OTHER -> FALSE

\* The items of a running sequence whose sink is the event buffer that lie
\* next to each other in the buffer follow each other in the order of the
\* sequence.
SequenceOrder ==
    \A i \in 1..(Len(pending) - 1) :
        LET x == pending[i]
            y == pending[i + 1]
        IN (/\ x.run = y.run
            /\ threads[x.run].kind = "seq"
            /\ threads[x.run].sink = "buffer")
              => Follows(x, y, threads[x.run].devs, threads[x.run].mods)

\* C6: running a Sequence starts a worker whose events are, in this order,
\* begin(sequence); for each device in list order, for each module in list
\* order, begin(module) with devs = [device], the module's records for
\* [device], end(module); then end(sequence); then the sentinel.
C6_SequenceEventOrder ==
    /\ \A c \in Callers :
          (caller[c].pc = "returned" /\ caller[c].api = "run_sequence")
             => caller[c].res \in {"iterator", "OperationInProgress"}
    /\ SequenceOrder

(* ---------------------------- the event buffer ------------------------- *)

\* C7: with either buffer implementation, what the consumer obtains is, item
\* by item, what the workers pushed, in push order: the container holds
\* exactly the items pushed and not yet obtained, and each get returns the
\* oldest of them.
C7_ConsumptionOrder ==
    /\ [](DrainOrder(buffer) = pending)
    /\ [][Len(buffer') < Len(buffer) => got' = Head(pending)]_vars

\* The deque holds two items while the consumer has already obtained one.
C7_Witness ==
    /\ impl = "deque"
    /\ Len(buffer) = 2
    /\ got.ev # ""

(* --------------------------- ArC1.initialise --------------------------- *)

\* initialise raises `err`; the port is left as it is.
InitialiseRaise(err) == link' = [link EXCEPT !.pc = "failed", !.err = err]

\* The bytes or the packet `pkt` have been written to the port.
Written(pkt) == Append(link.wire, pkt)

\* initialise that opens the new port without closing the one it holds.
InitialiseOpenKeepsOldPort ==
    /\ link.pc \in {"idle", "ready", "failed"}
    /\ link.held < 2
    /\ link' = [NewLink(link.config) EXCEPT
                   !.fw_version = link.fw_version, !.pc = "reset",
                   !.port = "open", !.held = link.held + 1]
    /\ UNCHANGED notLink

\* initialise is called, for the first time or again: an open port is closed
\* and serial.Serial opens it, or raises.
InitialiseOpen ==
    /\ link.pc \in {"idle", "ready", "failed"}
    /\ \E opened \in BOOLEAN :
          LET closed == IF link.port = "open" THEN link.held - 1 ELSE link.held
              called == [NewLink(link.config) EXCEPT
                             !.fw_version = link.fw_version, !.held = closed]
          IN link' = IF opened
                     THEN [called EXCEPT !.pc = "reset", !.port = "open",
                                         !.held = closed + 1]
                     ELSE [called EXCEPT !.pc = "failed",
                                         !.err = "SerialException"]
    /\ UNCHANGED notLink

\* self.reset(): the reset bytes are written, or the write raises.
InitialiseReset ==
    /\ link.pc = "reset"
    /\ \/ link' = [link EXCEPT !.pc = "init", !.wire = Written(ResetBytes)]
       \/ InitialiseRaise("SerialException")
    /\ UNCHANGED notLink

\* self.write_packet(INIT(self._config)), or the write raises.
InitialiseSendInit ==
    /\ link.pc = "init"
    /\ \/ link' = [link EXCEPT !.pc = "confirm",
                               !.wire = Written(INIT(link.config))]
       \/ InitialiseRaise("SerialException")
    /\ UNCHANGED notLink

\* The try block with every integer acknowledged, whatever its value.
InitialiseConfirmAnyInteger ==
    /\ link.pc = "confirm"
    /\ \E line \in Lines :
          link' = IF ParseInt(line).ok
                  THEN [link EXCEPT
                           !.pc = "version", !.line = line, !.read = TRUE,
                           !.wire = Written(INIT_ACK(link.config.read_mode,
                                                     link.config.Vread))]
                  ELSE [link EXCEPT
                           !.pc = "failed", !.line = line, !.read = TRUE,
                           !.err = "ValueError"]
    /\ UNCHANGED notLink

\* The try block of initialise: read_line, int(), then INIT_ACK or
\* ConnectionError; a SerialException of the read or of the write of INIT_ACK
\* becomes a ConnectionError, a ValueError of int() is not caught.
InitialiseConfirm ==
    /\ link.pc = "confirm"
    /\ \/ InitialiseRaise("ConnectionError")
       \/ \E line \in Lines :
             LET confirmation == ParseInt(line)
                 readLine == [link EXCEPT !.line = line, !.read = TRUE]
             IN IF ~confirmation.ok
                THEN link' = [readLine EXCEPT !.pc = "failed",
                                              !.err = "ValueError"]
                ELSE IF confirmation.val = 1
                THEN \/ link' = [readLine EXCEPT
                                    !.pc = "version",
                                    !.wire = Written(INIT_ACK(
                                                 link.config.read_mode,
                                                 link.config.Vread))]
                     \/ link' = [readLine EXCEPT !.pc = "failed",
                                                 !.err = "ConnectionError"]
                ELSE link' = [readLine EXCEPT !.pc = "failed",
                                              !.err = "ConnectionError"]
    /\ UNCHANGED notLink

\* The probe with the decoding of the reply outside the try block: a reply
\* of fewer than four bytes makes initialise fail.
InitialiseVersionUnguarded ==
    /\ link.pc = "version"
    /\ \E data \in Replies :
          link' = IF Len(data) = 4
                  THEN [link EXCEPT !.pc = "ready", !.reply = data,
                                    !.fw_version = Unpack2H(data),
                                    !.wire = Written(VersionQuery)]
                  ELSE [link EXCEPT !.pc = "failed", !.reply = data,
                                    !.err = "struct.error",
                                    !.wire = Written(VersionQuery)]
    /\ UNCHANGED notLink

\* The firmware-version probe: the query is written and four bytes are read
\* and unpacked; whatever raises inside the try block (the write, or
\* struct.unpack on fewer than four bytes) leaves _fw_version None.
InitialiseVersion ==
    /\ link.pc = "version"
    /\ \/ link' = [link EXCEPT !.pc = "ready", !.fw_version = NoVersion]
       \/ \E data \in Replies :
             link' = [link EXCEPT
                         !.pc = "ready", !.reply = data,
                         !.fw_version = IF Len(data) = 4 THEN Unpack2H(data)
                                        ELSE NoVersion,
                         !.wire = Written(VersionQuery)]
    /\ UNCHANGED notLink

\* The engine at rest.
EngineIdle ==
    /\ app = "modules"
    /\ impl = "queue"
    /\ buffer = << >>
    /\ operation = None
    /\ threads = << >>
    /\ caller = [c \in Callers |-> IdleCaller]
    /\ pending = << >>
    /\ got = NoItem

HandshakeInit ==
    /\ EngineIdle
    /\ link \in {NewLink(conf) : conf \in Confs}
    /\ runner = NewRunner(<< >>)
    /\ field = NewField("Integer", 0)
    /\ RestIdle

HandshakeNext ==
    \/ InitialiseOpen
    \/ InitialiseReset
    \/ InitialiseSendInit
    \/ InitialiseConfirm
    \/ InitialiseVersion

SpecHandshake == HandshakeInit /\ [][HandshakeNext]_vars

(* ------------------------ generic_triplet_runner ----------------------- *)

\* instr.write_packet(pkt).
TripletWritePacket ==
    /\ runner.pc = "pkt"
    /\ runner' = [runner EXCEPT
                     !.pc = IF runner.devs = << >> THEN "done" ELSE "device",
                     !.wire = Append(@, [id |-> "pkt", args |-> << >>])]
    /\ UNCHANGED notRunner

\* instr.write_packet(DEVICE(word, bit)) for the device of the loop.
TripletSelectDevice ==
    /\ runner.pc = "device"
    /\ runner' = [runner EXCEPT
                     !.pc = "read",
                     !.wire = Append(@, DEVICE(runner.devs[runner.di]))]
    /\ UNCHANGED notRunner

\* One turn of the while loop: read_floats(3), then the sink or the break.
TripletRead ==
    /\ runner.pc = "read"
    /\ \E t \in Triplets :
          LET di == runner.di
              dev == runner.devs[di]
              read == [runner EXCEPT !.reads[di] = Append(@, t)]
          IN /\ Len(runner.reads[di]) >= MaxTuples => t[1] <= 0
             /\ runner' =
                  IF ~(int(t[1]) <= 0)
                  THEN [read EXCEPT
                           !.sunk[di] = Append(@, <<dev[1], dev[2],
                                                    t[1], t[2], t[3]>>)]
                  ELSE IF di < Len(runner.devs)
                  THEN [read EXCEPT !.pc = "device", !.di = di + 1]
                  ELSE [read EXCEPT !.pc = "done"]
    /\ UNCHANGED notRunner

TripletInit ==
    /\ EngineIdle
    /\ link = NewLink(DefaultConf)
    /\ runner \in {NewRunner(devs) : devs \in DevOrders}
    /\ field = NewField("Integer", 0)
    /\ RestIdle

TripletNext ==
    \/ TripletWritePacket
    \/ TripletSelectDevice
    \/ TripletRead

SpecTriplet == TripletInit /\ [][TripletNext]_vars

\* The tuples of `reads` before the first one whose first field is <= 0.
BeforeTerminator(reads) ==
    LET stops == {i \in 1..Len(reads) : reads[i][1] <= 0}
        first == IF stops = {} THEN Len(reads) + 1
                 ELSE CHOOSE i \in stops : \A j \in stops : i <= j
    IN SubSeq(reads, 1, first - 1)

\* The sub-stream of the d-th device has ended.
SubStreamEnded(d) == runner.pc = "done" \/ d < runner.di

\* C8: for each device, in the order of the call, the records delivered to
\* the sink are exactly the tuples read before the first tuple whose first
\* field is <= 0, and the device's sub-stream ends when such a tuple has been
\* read and not before.
C8_DeliveredUpToTerminator ==
    /\ \A i \in 1..Len(runner.wire) - 1 :
          runner.wire[i + 1] = DEVICE(runner.devs[i])
    /\ \A d \in 1..Len(runner.devs) :
          LET dev == runner.devs[d]
              upTo == BeforeTerminator(runner.reads[d])
          IN /\ runner.sunk[d] =
                    [i \in 1..Len(upTo) |->
                        <<dev[1], dev[2], upTo[i][1], upTo[i][2], upTo[i][3]>>]
             /\ SubStreamEnded(d) <=>
                    \E i \in 1..Len(runner.reads[d]) :
                        runner.reads[d][i][1] <= 0

(* ----------------------------- the handshake --------------------------- *)

\* The confirmation line has been read and is an integer other than 1.
ConfirmationNotOne ==
    /\ link.read
    /\ ParseInt(link.line).ok
    /\ ParseInt(link.line).val # 1

\* C9: if the confirmation line parses to an integer other than 1,
\* initialise fails with ConnectionError, and neither INIT_ACK nor the
\* firmware-version query is written to the transport.
C9_BadConfirmationFails ==
    ConfirmationNotOne =>
        /\ link.pc = "failed"
        /\ link.err = "ConnectionError"
        /\ \A i \in 1..Len(link.wire) :
              link.wire[i].id \notin {INIT_ACK(0, 0).id, VersionQuery.id}

\* initialise has read the confirmation line "02" and has failed.
C9_Witness ==
    /\ link.read
    /\ link.line = <<"0", "2">>
    /\ link.pc = "failed"
    /\ link.wire = <<ResetBytes, INIT(link.config)>>

\* C10: when the confirmation line cannot be parsed as an integer, or the
\* transport fails, initialise fails with ConnectionError and with no other
\* kind of error.
C10_OnlyConnectionError ==
    link.pc = "failed" => link.err = "ConnectionError"

\* C11: after a failed handshake the Link is closed: the port initialise
\* opened has been closed and the Link holds no open port.
C11_FailedHandshakeClosesPort ==
    link.pc = "failed" => link.port = "none"

\* INIT_ACK has been written by the current call of initialise.
AckWritten == \E i \in 1..Len(link.wire) : link.wire[i].id = INIT_ACK(0, 0).id

\* C12: once INIT_ACK is written no outcome of the firmware-version probe
\* makes initialise fail; when it returns, firmware_version is the decoded
\* pair of a 4-byte reply and None after a shorter reply or an exception.
C12_VersionProbeNeverFails ==
    /\ AckWritten => link.pc \in {"version", "ready"}
    /\ link.pc = "ready" =>
          link.fw_version = IF Len(link.reply) = 4 THEN Unpack2H(link.reply)
                            ELSE NoVersion

\* initialise has returned after a probe that read two bytes only.
C12_Witness ==
    /\ link.pc = "ready"
    /\ AckWritten
    /\ Len(link.reply) = 2
    /\ link.fw_version = NoVersion

(* --------------------------- ArC1.update_Vread ------------------------- *)

\* The absolute maximum of the read-out voltage, 12.0 V, in millivolts.
MaxVread == 12000

\* The values update_Vread is called with, in millivolts.
Voltages == {-12001, -12000, -500, 0, 500, 12000, 12001}

\* The configurations of an initialised Link.
VreadConfs ==
    {NormaliseConf([read_mode |-> m, Vread |-> v]) :
        m \in {CLASSIC, TIA, TIA4P, TIA4P_NEG}, v \in {500, -500}}

Abs(val) == IF val < 0 THEN -val ELSE val

\* The bounds test with the absolute value forgotten.
OutOfBoundsAbove(val) == val > MaxVread

\* np.abs(val) > 12.0.
OutOfBounds(val) == Abs(val) > MaxVread

\* The read mode chosen by the sign of the voltage alone.
SwapModeBySign(val, read_mode) ==
    IF val < 0 THEN TIA4P_NEG
    ELSE IF val > 0 /\ read_mode = TIA4P_NEG THEN TIA4P
    ELSE read_mode

\* The read mode update_Vread sends and stores for `val` when the
\* configuration holds `read_mode`.
SwapMode(val, read_mode) ==
    IF val < 0 /\ read_mode = TIA4P THEN TIA4P_NEG
    ELSE IF val > 0 /\ read_mode = TIA4P_NEG THEN TIA4P
    ELSE read_mode

\* SET_VREAD(voltage, readoption).
SET_VREAD(voltage, readoption) ==
    [id |-> "01", args |-> <<readoption, voltage>>]

\* update_Vread(val) is called: the bounds test, then the choice of the mode.
UpdateVreadCall ==
    /\ link.pc = "ready"
    /\ \E val \in Voltages :
          LET called == [link EXCEPT !.old = link.config, !.wire = << >>,
                                     !.err = "", !.local = <<val>>]
          IN link' = IF OutOfBounds(val)
                     THEN [called EXCEPT !.err = "ValueError"]
                     ELSE [called EXCEPT
                              !.pc = "vwrite",
                              !.local = <<val, SwapMode(val,
                                                  link.config.read_mode)>>]
    /\ UNCHANGED notLink

\* The write with the configuration assigned before it.
UpdateVreadAssignsFirst ==
    /\ link.pc = "vwrite"
    /\ LET assigned == [link EXCEPT !.config = [read_mode |-> link.local[2],
                                                Vread |-> link.local[1]]]
       IN \/ link' = [assigned EXCEPT
                         !.pc = "vassign",
                         !.wire = Written(SET_VREAD(link.local[1],
                                                    link.local[2]))]
          \/ link' = [assigned EXCEPT !.pc = "ready",
                                      !.err = "SerialException"]
    /\ UNCHANGED notLink

\* self.write_packet(SET_VREAD(val, read_mode)), or the write raises.
UpdateVreadWrite ==
    /\ link.pc = "vwrite"
    /\ \/ link' = [link EXCEPT
                      !.pc = "vassign",
                      !.wire = Written(SET_VREAD(link.local[1],
                                                 link.local[2]))]
       \/ link' = [link EXCEPT !.pc = "ready", !.err = "SerialException"]
    /\ UNCHANGED notLink

\* self._config.Vread = val; self._config.read_mode = read_mode.
UpdateVreadAssign ==
    /\ link.pc = "vassign"
    /\ link' = [link EXCEPT !.pc = "ready",
                            !.config = [read_mode |-> link.local[2],
                                        Vread |-> link.local[1]]]
    /\ UNCHANGED notLink

VreadInit ==
    /\ EngineIdle
    /\ link \in {[NewLink(conf) EXCEPT !.pc = "ready", !.port = "open",
                                        !.held = 1] : conf \in VreadConfs}
    /\ runner = NewRunner(<< >>)
    /\ field = NewField("Integer", 0)
    /\ RestIdle

VreadNext ==
    \/ UpdateVreadCall
    \/ UpdateVreadWrite
    \/ UpdateVreadAssign

SpecVread == VreadInit /\ [][VreadNext]_vars

\* The last call of update_Vread has returned normally.
VreadUpdated ==
    /\ link.pc = "ready"
    /\ link.local # << >>
    /\ link.err = ""

\* C13: update_Vread switches the read mode with the sign of the voltage in
\* the 4-point modes only: negative in TIA4P gives TIA4P_NEG, positive in
\* TIA4P_NEG gives TIA4P, and CLASSIC and TIA are left as they are.
C13_ModeFollowsSignInFourPoint ==
    VreadUpdated =>
        /\ (link.old.read_mode = TIA4P /\ link.local[1] < 0)
              => link.config.read_mode = TIA4P_NEG
        /\ (link.old.read_mode = TIA4P_NEG /\ link.local[1] > 0)
              => link.config.read_mode = TIA4P
        /\ link.old.read_mode \in {CLASSIC, TIA}
              => link.config.read_mode = link.old.read_mode

\* update_Vread(-0.5) has returned on a Link that was in TIA4P.
C13_Witness ==
    /\ VreadUpdated
    /\ link.old.read_mode = TIA4P
    /\ link.local[1] = -500
    /\ link.config = [read_mode |-> TIA4P_NEG, Vread |-> -500]

\* C14: update_Vread with |val| > 12 raises the validation error at once,
\* writes no packet and leaves Vread and read_mode as they were.
C14_OutOfRangeRejected ==
    (link.local # << >> /\ Abs(link.local[1]) > MaxVread) =>
        /\ link.pc = "ready"
        /\ link.err = "ValueError"
        /\ link.wire = << >>
        /\ link.config = link.old

\* update_Vread(-12.001) has raised.
C14_Witness ==
    /\ link.local = <<-12001>>
    /\ link.err = "ValueError"
    /\ link.config = link.old

\* C15: the configuration changes only after SET_VREAD has been written: it
\* is the old one until then and when the write fails, and the packet
\* carries the new voltage with the mode already swapped.
C15_ConfigAfterWrite ==
    /\ (link.pc = "vwrite" \/ link.err = "SerialException")
          => link.config = link.old
    /\ link.config # link.old => link.wire # << >>
    /\ \A i \in 1..Len(link.wire) :
          /\ link.wire[i].args[2] = link.local[1]
          /\ link.wire[i].args[1] =
                IF link.local[1] < 0 /\ link.old.read_mode = TIA4P
                THEN TIA4P_NEG
                ELSE IF link.local[1] > 0 /\ link.old.read_mode = TIA4P_NEG
                THEN TIA4P
                ELSE link.old.read_mode

\* The write of SET_VREAD(-0.5, TIA4P_NEG) has failed on a Link that was in
\* TIA4P at 0.5 V.
C15_Witness ==
    /\ link.err = "SerialException"
    /\ link.local = <<-500, TIA4P_NEG>>
    /\ link.old = [read_mode |-> TIA4P, Vread |-> 500]
    /\ link.config = link.old

(* ------------ wait_on_op, finish_op and _discard_buffer, called -------- *)
(* ------------ by the main thread                                 -------- *)

\* Thread c is the main thread of an application that uses these calls.
Controls(c) == app = "control" /\ c = Consumer

\* Thread c enters `api`; `saw` keeps the handle that existed at that moment.
Enter(c, api, pc) ==
    caller' = [caller EXCEPT ![c] =
                  [IdleCaller EXCEPT !.pc = pc, !.api = api, !.saw = operation]]

\* The call of thread c ends: it returns None ("returned") or raises.
Leave(c, res) ==
    caller' = [caller EXCEPT ![c].pc = "returned", ![c].res = res]

\* `self._operation.join()`: the handle is read, then joined; None has no
\* join (AttributeError), a thread never started cannot be joined.
JoinHandle(c, pc) ==
    IF operation = None THEN Leave(c, "AttributeError")
    ELSE IF ~Started(operation) THEN Leave(c, "RuntimeError")
    ELSE caller' = [caller EXCEPT ![c].pc = pc, ![c].join = operation]

\* wait_on_op, `if self._operation is not None` (arc.py:438).
WaitOnOpCall(c) ==
    /\ Controls(c)
    /\ caller[c].pc = "idle"
    /\ IF operation = None
       THEN caller' = [caller EXCEPT ![c] =
                [IdleCaller EXCEPT !.pc = "returned", !.api = "wait_on_op",
                                   !.res = "returned"]]
       ELSE Enter(c, "wait_on_op", "wjoin")
    /\ UNCHANGED <<app, impl, buffer, operation, threads, pending, got>>

\* wait_on_op, `self._operation.join()` (arc.py:439): the handle is read a
\* second time.
WaitOnOpJoin(c) ==
    /\ caller[c].pc = "wjoin"
    /\ JoinHandle(c, "wjoining")
    /\ UNCHANGED <<app, impl, buffer, operation, threads, pending, got>>

\* The join of wait_on_op returns once the joined thread has terminated.
WaitOnOpJoined(c) ==
    /\ caller[c].pc = "wjoining"
    /\ Terminated(caller[c].join)
    /\ Leave(c, "returned")
    /\ UNCHANGED <<app, impl, buffer, operation, threads, pending, got>>

\* finish_op called by the main thread, its first line (arc.py:430): the
\* handle is not the current thread, whatever it is.
FinishOpCall(c) ==
    /\ Controls(c)
    /\ caller[c].pc = "idle"
    /\ Enter(c, "finish_op", "fjoin")
    /\ UNCHANGED <<app, impl, buffer, operation, threads, pending, got>>

\* finish_op, `self._operation.join()` (arc.py:431): the handle is read a
\* second time.
FinishOpCallJoin(c) ==
    /\ caller[c].pc = "fjoin"
    /\ JoinHandle(c, "fjoining")
    /\ UNCHANGED <<app, impl, buffer, operation, threads, pending, got>>

\* The join of finish_op returns once the joined thread has terminated.
FinishOpCallJoined(c) ==
    /\ caller[c].pc = "fjoining"
    /\ Terminated(caller[c].join)
    /\ caller' = [caller EXCEPT ![c].pc = "fclear"]
    /\ UNCHANGED <<app, impl, buffer, operation, threads, pending, got>>

\* finish_op, `self._operation = None` (arc.py:432).
FinishOpCallClear(c) ==
    /\ caller[c].pc = "fclear"
    /\ operation' = None
    /\ Leave(c, "returned")
    /\ UNCHANGED <<app, impl, buffer, threads, pending, got>>

\* _discard_buffer, `self._operation is None` (arc.py:332).
DiscardCall(c) ==
    /\ Controls(c)
    /\ caller[c].pc = "idle"
    /\ Enter(c, "_discard_buffer", IF operation = None THEN "dsize" ELSE "drain")
    /\ UNCHANGED <<app, impl, buffer, operation, threads, pending, got>>

\* _discard_buffer, `self._items_in_buffer() == 0` and the return
\* (arc.py:332-333).
DiscardSize(c) ==
    /\ caller[c].pc = "dsize"
    /\ IF ItemsInBuffer(buffer) = 0
       THEN Leave(c, "returned")
       ELSE caller' = [caller EXCEPT ![c].pc = "drain"]
    /\ UNCHANGED <<app, impl, buffer, operation, threads, pending, got>>

\* One turn of `for _ in iter(self._get_from_buffer, None): pass`
\* (arc.py:336-337): the next item is taken; the sentinel ends the loop.
DiscardGet(c) ==
    /\ caller[c].pc = "drain"
    /\ ItemsInBuffer(buffer) # 0
    /\ got' = GetItem(buffer)
    /\ buffer' = GetRest(buffer)
    /\ pending' = Tail(pending)
    /\ IF GetItem(buffer).ev = "sentinel"
       THEN /\ threads' = [threads EXCEPT ![GetItem(buffer).run].seen = @ + 1]
            /\ Leave(c, "returned")
       ELSE UNCHANGED <<threads, caller>>
    /\ UNCHANGED <<app, impl, operation>>

ControlInit ==
    /\ app = "control"
    /\ impl \in BufferImpls
    /\ buffer = << >>
    /\ operation = None
    /\ threads = << >>
    /\ caller = [c \in Callers |-> IdleCaller]
    /\ pending = << >>
    /\ got = NoItem
    /\ link = NewLink(DefaultConf)
    /\ runner = NewRunner(<< >>)
    /\ field = NewField("Integer", 0)
    /\ RestIdle

\* With the main thread as the only caller the handle is never replaced while
\* its worker runs, so a worker's own finish_op always finds itself in the
\* handle and goes from its test to the assignment.
ControlNext ==
    \/ \E c \in Callers : RunModuleCall(c) /\ UNCHANGED notEngine
    \/ \E c \in Callers : RunRaise(c) /\ UNCHANGED notEngine
    \/ \E c \in Callers : RunInstall(c) /\ UNCHANGED notEngine
    \/ \E c \in Callers : RunStart(c) /\ UNCHANGED notEngine
    \/ \E c \in Callers : Resume(c) /\ UNCHANGED notEngine
    \/ \E c \in Callers : WaitOnOpCall(c) /\ UNCHANGED notEngine
    \/ \E c \in Callers : WaitOnOpJoin(c) /\ UNCHANGED notEngine
    \/ \E c \in Callers : WaitOnOpJoined(c) /\ UNCHANGED notEngine
    \/ \E c \in Callers : FinishOpCall(c) /\ UNCHANGED notEngine
    \/ \E c \in Callers : FinishOpCallJoin(c) /\ UNCHANGED notEngine
    \/ \E c \in Callers : FinishOpCallJoined(c) /\ UNCHANGED notEngine
    \/ \E c \in Callers : FinishOpCallClear(c) /\ UNCHANGED notEngine
    \/ \E c \in Callers : DiscardCall(c) /\ UNCHANGED notEngine
    \/ \E c \in Callers : DiscardSize(c) /\ UNCHANGED notEngine
    \/ \E c \in Callers : DiscardGet(c) /\ UNCHANGED notEngine
    \/ \E w \in ThreadIds : OpBegin(w) /\ UNCHANGED notEngine
    \/ \E w \in ThreadIds : OpBody(w) /\ UNCHANGED notEngine
    \/ \E w \in ThreadIds : FinishOpTest(w) /\ UNCHANGED notEngine
    \/ \E w \in ThreadIds : FinishOpClear(w) /\ UNCHANGED notEngine
    \/ \E w \in ThreadIds : OpEnd(w) /\ UNCHANGED notEngine
    \/ \E w \in ThreadIds : PushSentinel(w) /\ UNCHANGED notEngine
    \/ Consume /\ UNCHANGED notEngine

SpecControl == ControlInit /\ [][ControlNext]_vars

\* C16: wait_on_op called from the caller thread returns only after the
\* worker of the Operation it found has finished, it removes no item from
\* the event buffer, and with no Operation it returns at once.
C16_WaitOnOpWaitsForWorker ==
    /\ [](\A c \in Callers :
             (caller[c].api = "wait_on_op" /\ caller[c].pc = "returned") =>
                /\ caller[c].res = "returned"
                /\ caller[c].saw # None =>
                      (caller[c].join = caller[c].saw
                          /\ Terminated(caller[c].join)))
    /\ [][\A c \in Callers :
             (caller[c].api = "wait_on_op" /\ caller'[c] # caller[c])
                => buffer' = buffer]_vars

\* C17: finish_op called from a thread other than the worker, while the
\* worker is the Operation, joins the worker, returns only after it has
\* terminated and leaves the handle cleared; a worker never joins itself.
C17_FinishOpJoinsThenClears ==
    /\ \A c \in Callers :
          (caller[c].api = "finish_op" /\ caller[c].pc = "returned"
              /\ caller[c].saw # None) =>
             /\ caller[c].res = "returned"
             /\ caller[c].join = caller[c].saw
             /\ Terminated(caller[c].join)
             /\ operation = None
    /\ \A w \in ThreadIds : threads[w].pc = "joining" => threads[w].join # w

\* C18: _discard_buffer takes items from the buffer only when no Operation
\* handle exists: not when it was called with an Operation active, and not
\* while one is.
C18_DiscardOnlyWhenIdle ==
    [][\A c \in Callers :
          (caller[c].pc = "drain" /\ Len(buffer') < Len(buffer))
             => (caller[c].saw = None /\ operation = None)]_vars

(* --------------------------- Field encoding ---------------------------- *)

\* The values of Integer fields, the items of IntegerList fields, the values
\* of Float fields (in thousandths) and of String fields (bytes).
IntValues == (-MaxInt)..MaxInt

ListItems == {-3, 0, 12}

ListValues == UNION {[1..n -> ListItems] : n \in 0..MaxListLen}

FloatValues == {-12000, -500, 0, 1, 500, 12000}

StringValues == {<< >>, <<"0">>, <<"0", "1">>, <<"9", "9", "9">>}

\* The identifier (format) of each class (params.py:60-65).
Identifier(kind) ==
    CASE kind = "Integer" -> "%d"
      [] kind = "IntegerList" -> "%d"
      [] kind = "Float" -> "%f"
      [] kind = "String" -> "%s"

DecimalDigits == <<"0", "1", "2", "3", "4", "5", "6", "7", "8", "9">>

\* The decimal numeral of a natural number.
RECURSIVE FormatNat(_)
FormatNat(n) ==
    IF n < 10 THEN <<DecimalDigits[n + 1]>>
    ELSE FormatNat(n \div 10) \o <<DecimalDigits[(n % 10) + 1]>>

\* b"%d" % v.
FormatD(v) == IF v < 0 THEN <<"-">> \o FormatNat(-v) ELSE FormatNat(v)

\* b"%f" % v for v given in thousandths: six decimals.
FormatF(v) ==
    LET a == IF v < 0 THEN -v ELSE v
        frac == a % 1000
    IN (IF v < 0 THEN <<"-">> ELSE << >>)
          \o FormatNat(a \div 1000) \o <<".">>
          \o <<DecimalDigits[(frac \div 100) + 1],
               DecimalDigits[((frac \div 10) % 10) + 1],
               DecimalDigits[(frac % 10) + 1], "0", "0", "0">>

\* (b"%s\n" % identifier.encode()) % item.
Format(identifier, item) ==
    (CASE identifier = "%d" -> FormatD(item)
       [] identifier = "%f" -> FormatF(item)
       [] identifier = "%s" -> item) \o <<"\n">>

\* b''.join(parts).
RECURSIVE Join(_)
Join(parts) ==
    IF parts = << >> THEN << >> ELSE Head(parts) \o Join(Tail(parts))

\* SimpleParam.__bytes__.
SimpleParamBytes(identifier, value) == Format(identifier, value)

\* The list encoded with one line terminator after the last item only.
ListParamBytesOneLine(identifier, value) ==
    Join([i \in 1..Len(value) |->
             SubSeq(Format(identifier, value[i]), 1,
                    Len(Format(identifier, value[i])) - 1)]) \o <<"\n">>

\* ListParam.__bytes__.
ListParamBytes(identifier, value) ==
    Join([i \in 1..Len(value) |-> Format(identifier, value[i])])

\* bytes(field).
Bytes(kind, value) ==
    IF kind = "IntegerList" THEN ListParamBytes(Identifier(kind), value)
    ELSE SimpleParamBytes(Identifier(kind), value)

\* bytes(field) is taken for the first time.
FieldBytes ==
    /\ field.pc = "new"
    /\ field' = [field EXCEPT !.pc = "encoded",
                              !.bytes = Bytes(field.kind, field.value)]
    /\ UNCHANGED notField

\* bytes(field) is taken a second time.
FieldBytesAgain ==
    /\ field.pc = "encoded"
    /\ field' = [field EXCEPT !.pc = "again",
                              !.again = Bytes(field.kind, field.value)]
    /\ UNCHANGED notField

FieldInit ==
    /\ EngineIdle
    /\ link = NewLink(DefaultConf)
    /\ runner = NewRunner(<< >>)
    /\ RestIdle
    /\ field \in {NewField("Integer", v) : v \in IntValues}
            \cup {NewField("IntegerList", v) : v \in ListValues}
            \cup {NewField("Float", v) : v \in FloatValues}
            \cup {NewField("String", v) : v \in StringValues}

FieldNext ==
    \/ FieldBytes
    \/ FieldBytesAgain

SpecFields == FieldInit /\ [][FieldNext]_vars

\* The encodings of Integer(a) for the items a of `value`, one after the
\* other in the order of the list.
RECURSIVE EachAsInteger(_)
EachAsInteger(value) ==
    IF value = << >> THEN << >>
    ELSE Bytes("Integer", Head(value)) \o EachAsInteger(Tail(value))

C20_NoEmptyEncoding ==
    field.pc # "new" => Len(field.bytes) >= 1

(* -------------------- the engine: further properties ------------------- *)

\* C22: run_module with a registered tag resolves it and runs the Module as
\* if its class had been passed, and an argument that is neither a Module
\* subclass nor a string is rejected with ValueError: no call of run_module
\* ends in another error than OperationInProgress or ValueError.
C22_TagResolvedOrValueError ==
    \A c \in Callers :
        (caller[c].pc = "returned" /\ caller[c].api = "run_module")
           => caller[c].res \in {"iterator", "OperationInProgress", "ValueError"}

\* C25: the worker pushes its end envelope before the Operation handle is
\* cleared: a worker about to push the end envelope is still the handle.
C25_HandleExistsAtEndEnvelope ==
    \A w \in ThreadIds : threads[w].pc = "end" => operation = w

\* C27: with one calling thread, at most one worker is alive at any time, and
\* once a later run has been accepted nothing of an earlier run is pushed:
\* in the buffer no item of an earlier run lies behind one of a later run.
C27_RunsDoNotOverlap ==
    app = "modules" =>
        /\ Cardinality({w \in ThreadIds : Alive(w)}) <= 1
        /\ \A i, j \in 1..Len(pending) :
              i < j => pending[i].run <= pending[j].run

\* C28: a run given a caller-supplied sink adds nothing to the Link's
\* internal buffer: no item in the buffer comes from a worker bound to a
\* custom sink.
C28_CustomSinkKeepsBufferEmpty ==
    \A i \in 1..Len(pending) : threads[pending[i].run].sink # "custom"

(* ----------------------- the handshake: its order ---------------------- *)

\* What a complete handshake writes to the port, in order.
HandshakeWrites ==
    <<ResetBytes, INIT(link.config),
      INIT_ACK(link.config.read_mode, link.config.Vread), VersionQuery>>

\* C26: the transport sees the reset command, then INIT with the
\* Configuration, then INIT_ACK, written only after a confirmation line equal
\* to 1 has been read, then the version query; and a port already open is
\* closed before the new one is opened, so the Link holds one port at most.
C26_HandshakeOrder ==
    /\ Len(link.wire) <= Len(HandshakeWrites)
    /\ link.wire = SubSeq(HandshakeWrites, 1, Len(link.wire))
    /\ Len(link.wire) >= 3 =>
          (link.read /\ ParseInt(link.line) = [ok |-> TRUE, val |-> 1])
    /\ link.held = IF link.port = "open" THEN 1 ELSE 0

\* A handshake has written all four messages after the confirmation "01".
C26_Witness ==
    /\ link.pc = "ready"
    /\ link.wire = HandshakeWrites
    /\ link.line = <<"0", "1">>
    /\ link.held = 1

(* --------------------------- the module registry ----------------------- *)

\* A registry that keeps the class a tag already has.
RECURSIVE StoreAllKeepsFirst(_, _)
StoreAllKeepsFirst(map, mods) ==
    IF mods = << >> THEN map
    ELSE StoreAllKeepsFirst(
            IF map[Tag(Head(mods))] = NoClass
            THEN [map EXCEPT ![Tag(Head(mods))] = Head(mods)]
            ELSE map,
            Tail(mods))

\* self.modules[mod.tag] = mod for each class of `mods`, first to last.
RECURSIVE StoreAll(_, _)
StoreAll(map, mods) ==
    IF mods = << >> THEN map
    ELSE StoreAll([map EXCEPT ![Tag(Head(mods))] = Head(mods)], Tail(mods))

\* register_module(mod) (arc.py:221-230).
RegisterModule ==
    \E mod \in RegClasses :
        /\ modules' =
            IF ~IsModule(mod)
            THEN [modules EXCEPT !.api = "register_module", !.args = <<mod>>,
                                 !.before = modules.map, !.res = "ValueError"]
            ELSE [map |-> StoreAll(modules.map, <<mod>>),
                  api |-> "register_module", args |-> <<mod>>,
                  before |-> modules.map, res |-> "returned"]
        /\ UNCHANGED notModules

\* register_modules_from_file(path) (arc.py:271-277).
RegisterModulesFromFile ==
    \E file \in ModuleFiles :
        /\ modules' = [map |-> StoreAll(modules.map, file),
                       api |-> "register_modules_from_file", args |-> file,
                       before |-> modules.map, res |-> "returned"]
        /\ UNCHANGED notModules

\* register_modules_from_folder(path) (arc.py:279-285): the classes of the
\* files of the folder, in the order glob.glob lists the files.
RegisterModulesFromFolder ==
    \E f1, f2 \in ModuleFiles :
        /\ f1 # f2
        /\ modules' = [map |-> StoreAll(modules.map, f1 \o f2),
                       api |-> "register_modules_from_folder",
                       args |-> f1 \o f2,
                       before |-> modules.map, res |-> "returned"]
        /\ UNCHANGED notModules

RegistryInit ==
    /\ EngineIdle
    /\ link = NewLink(DefaultConf)
    /\ runner = NewRunner(<< >>)
    /\ field = NewField("Integer", 0)
    /\ modules = NewRegistry
    /\ transport = NewTransport
    /\ links = NewLinks([l \in LinkNames |-> FALSE], 500)
    /\ default_config = NewDefaults
    /\ sequences = NewSequences([s \in SequenceNames |-> FALSE])

RegistryNext ==
    \/ RegisterModule
    \/ RegisterModulesFromFile
    \/ RegisterModulesFromFolder

SpecRegistry == RegistryInit /\ [][RegistryNext]_vars

\* The positions of `mods` whose class carries tag `t`.
WithTag(mods, t) == {i \in 1..Len(mods) : Tag(mods[i]) = t}

\* The greatest member of a non-empty set of positions.
Latest(S) == CHOOSE i \in S : \A j \in S : j <= i

\* C21: registration is last-write-wins.  After a registration call about
\* Module subclasses the call has returned without an error, each tag among
\* the registered classes maps to the last of them that carries it (whether
\* or not the tag was already present), and every other tag maps to what it
\* mapped to before the call.
C21_LastRegistrationWins ==
    (modules.api # "" /\ \A i \in 1..Len(modules.args) :
                            IsModule(modules.args[i]))
        => /\ modules.res = "returned"
           /\ \A t \in Tags :
                modules.map[t] =
                    IF WithTag(modules.args, t) = {}
                    THEN modules.before[t]
                    ELSE modules.args[Latest(WithTag(modules.args, t))]

\* A file with two classes of the tag "RM" was registered over a registry
\* that already held another class under "RM" and a user class under "FF".
C21_Witness ==
    /\ modules.api = "register_modules_from_file"
    /\ modules.args = <<"UserRead", "UserRead2">>
    /\ modules.before["RM"] = "ReadMasked"
    /\ modules.before["FF"] = "UserForm"
    /\ modules.map["RM"] = "UserRead2"
    /\ modules.map["FF"] = "UserForm"

(* --------------------------- write and write_packet -------------------- *)

\* Thread t enters a call that writes n parts.
EnterWrite(t, api, n) ==
    [transport.thr EXCEPT ![t] = [pc |-> "write", api |-> api, n |-> n,
                                  k |-> 1, calls |-> @.calls + 1]]

\* write_packet with the `with self.lock` forgotten.
WritePacketCallUnlocked(t) ==
    /\ transport.thr[t].pc = "idle"
    /\ transport.thr[t].calls < MaxCalls
    /\ \E n \in PacketLens :
        transport' = [transport EXCEPT !.thr = EnterWrite(t, "write_packet", n)]
    /\ UNCHANGED notTransport

\* write(bytestream) up to `with self.lock` (arc.py:347): the thread goes on
\* when it has acquired the lock.
WriteCall(t) ==
    /\ transport.thr[t].pc = "idle"
    /\ transport.thr[t].calls < MaxCalls
    /\ transport.lock = Unlocked
    /\ transport' = [transport EXCEPT !.lock = t,
                                      !.thr = EnterWrite(t, "write", 1)]
    /\ UNCHANGED notTransport

\* write_packet(pkt) up to `with self.lock` (arc.py:357); the packet has n
\* Fields.
WritePacketCall(t) ==
    /\ transport.thr[t].pc = "idle"
    /\ transport.thr[t].calls < MaxCalls
    /\ transport.lock = Unlocked
    /\ \E n \in PacketLens :
        transport' = [transport EXCEPT
                         !.lock = t,
                         !.thr = EnterWrite(t, "write_packet", n)]
    /\ UNCHANGED notTransport

\* self._port.write(...) (arc.py:348 and 359): one part reaches the port.
\* write goes on to its sleep; write_packet goes on to the next part of the
\* packet and leaves the `with` block after the last one.
PortWrite(t) ==
    LET me == transport.thr[t]
    IN /\ me.pc = "write"
       /\ transport' =
            [transport EXCEPT
                !.log = Append(@, [kind |-> "write", by |-> t,
                                   call |-> me.calls, part |-> me.k]),
                !.thr[t].k = me.k + 1,
                !.thr[t].pc = IF me.api = "write" THEN "sleep"
                              ELSE IF me.k < me.n THEN "write"
                              ELSE "release"]
       /\ UNCHANGED notTransport

\* time.sleep(self._config.write_delay) (arc.py:349).
Sleep(t) ==
    LET me == transport.thr[t]
    IN /\ me.pc = "sleep"
       /\ transport' =
            [transport EXCEPT
                !.log = Append(@, [kind |-> "sleep", by |-> t,
                                   call |-> me.calls, part |-> 0]),
                !.thr[t].pc = "release"]
       /\ UNCHANGED notTransport

\* The end of the `with` block: the lock is released by the thread that
\* holds it.
Release(t) ==
    /\ transport.thr[t].pc = "release"
    /\ transport' =
        [transport EXCEPT
            !.lock = IF @ = t THEN Unlocked ELSE @,
            !.thr[t] = [IdleWriter EXCEPT !.calls = transport.thr[t].calls]]
    /\ UNCHANGED notTransport

TransportInit ==
    /\ EngineIdle
    /\ link = NewLink(DefaultConf)
    /\ runner = NewRunner(<< >>)
    /\ field = NewField("Integer", 0)
    /\ modules = NewRegistry
    /\ transport = NewTransport
    /\ links = NewLinks([l \in LinkNames |-> FALSE], 500)
    /\ default_config = NewDefaults
    /\ sequences = NewSequences([s \in SequenceNames |-> FALSE])

TransportNext ==
    \E t \in Writers :
        \/ WriteCall(t)
        \/ WritePacketCall(t)
        \/ PortWrite(t)
        \/ Sleep(t)
        \/ Release(t)

SpecTransport == TransportInit /\ [][TransportNext]_vars

\* What reached the port, in order.
PortLog == SelectSeq(transport.log, LAMBDA e : e.kind = "write")

\* Two entries of the log made by the same call.
SameCall(e, f) == e.by = f.by /\ e.call = f.call

\* C23: outbound traffic is serialized by one lock.  At most one thread is
\* inside write or write_packet, and the parts of one call reach the port
\* next to each other and in the order of the packet: between two parts of
\* a call there are only parts of that call, each with the next index.
C23_PacketFieldsContiguous ==
    /\ Cardinality({t \in Writers : transport.thr[t].pc # "idle"}) <= 1
    /\ \A i, j \in 1..Len(PortLog) :
        (i < j /\ SameCall(PortLog[i], PortLog[j]))
            => \A k \in i..j :
                /\ SameCall(PortLog[i], PortLog[k])
                /\ PortLog[k].part = PortLog[i].part + (k - i)

\* Both threads have written a packet of three Fields and a bytestream, one
\* thread first and the other last.
C23_Witness ==
    /\ \A t \in Writers :
        /\ transport.thr[t].calls = MaxCalls
        /\ transport.thr[t].pc = "idle"
        /\ \E i \in 1..Len(PortLog) :
            PortLog[i].by = t /\ PortLog[i].part = 3
    /\ Len(PortLog) = 8
    /\ PortLog[1].by # PortLog[8].by

\* C24: every outbound write is followed by the pacing delay before the
\* lock is released: each part that reached the port is followed by a sleep
\* of the same call before anything else is written, and the lock is free
\* only when the last thing that happened is a sleep.
C24_EveryWritePaced ==
    /\ \A i \in 1..Len(transport.log) - 1 :
        transport.log[i].kind = "write" => transport.log[i + 1].kind = "sleep"
    /\ (transport.lock = Unlocked /\ transport.log # << >>)
        => transport.log[Len(transport.log)].kind = "sleep"

(* ------------------------------- two Links ----------------------------- *)

\* self._config of Link l.
ConfigOf(l) == links.heap[links.ref[l]]

\* The record of a call on Link l: the configuration of each Link when the
\* call was made, and how the call returned.
Called(l, op, res) ==
    [by |-> l, op |-> op, before |-> [m \in LinkNames |-> ConfigOf(m)],
     res |-> res]

\* ArC1(port) or ArC1(port, config=conf) (arc.py:147-184) for the name l:
\* self._config is the object passed, which the application has just created
\* with a read mode and a Vread of its choice, or the default of the
\* parameter; lines 179-184 correct the read mode of that object in place.
LinkConstruct(l) ==
    \E explicit \in BOOLEAN, m \in {TIA, TIA4P}, v \in {500, -500} :
        LET o == ConfigArg(l, explicit)
            passed == IF explicit THEN [read_mode |-> m, Vread |-> v]
                      ELSE links.heap[o]
        IN /\ links' = [heap |-> [links.heap EXCEPT ![o] = NormaliseConf(passed)],
                        ref |-> [links.ref EXCEPT ![l] = o],
                        last |-> Called(l, "__init__", "returned")]
           /\ UNCHANGED notLinks

\* update_Vread(val) on Link l (arc.py:306-326): out of bounds it raises;
\* otherwise the packet is written, or the write raises, and Vread and
\* read_mode of self._config are assigned.
LinkUpdateVread(l) ==
    \E val \in LinkVoltages :
        /\ \/ /\ OutOfBounds(val)
              /\ links' = [links EXCEPT
                              !.last = Called(l, "update_Vread", "ValueError")]
           \/ /\ ~OutOfBounds(val)
              /\ links' = [links EXCEPT
                              !.last = Called(l, "update_Vread",
                                              "SerialException")]
           \/ /\ ~OutOfBounds(val)
              /\ links' =
                    [links EXCEPT
                        !.heap[links.ref[l]] =
                            [read_mode |-> SwapMode(val, ConfigOf(l).read_mode),
                             Vread |-> val],
                        !.last = Called(l, "update_Vread", "returned")]
        /\ UNCHANGED notLinks

LinksInit ==
    /\ EngineIdle
    /\ link = NewLink(DefaultConf)
    /\ runner = NewRunner(<< >>)
    /\ field = NewField("Integer", 0)
    /\ modules = NewRegistry
    /\ transport = NewTransport
    /\ links \in {NewLinks(explicit, v) :
                    explicit \in [LinkNames -> BOOLEAN], v \in {500, -500}}
    /\ default_config = NewDefaults
    /\ sequences = NewSequences([s \in SequenceNames |-> FALSE])

LinksNext ==
    \E l \in LinkNames :
        \/ LinkConstruct(l)
        \/ LinkUpdateVread(l)

SpecLinks == LinksInit /\ [][LinksNext]_vars

\* C29: each Link exclusively owns its Configuration.  When both Links were
\* constructed without a config argument, a call of update_Vread or of the
\* constructor for one of them leaves Vread and read_mode of the other
\* Link's configuration as they were before the call.
C29_OtherLinkConfigUnchanged ==
    \A l \in LinkNames :
        (/\ links.last.by \notin {"", l}
         /\ links.ref[l] = "default"
         /\ links.ref[links.last.by] = "default")
            => ConfigOf(l) = links.last.before[l]

(* ------------------------------ default_config ------------------------- *)

\* The configurations an application hands to FormFinder.run.
FormConfs ==
    {[FormFinderDefault EXCEPT !.mode = m, !.PWnum = n] :
        m \in {0, 1}, n \in {1, 2}}

\* FormFinder.run(devs, conf) (formfinder.py:69-73): conf is the dictionary
\* handed in, or the dictionary FormFinder.default_config names; the packet is
\* built from it.
FormFinderRun ==
    /\ default_config.pc = "idle"
    /\ \E conf \in FormConfs \cup {default_config.FormFinder} :
        default_config' = [default_config EXCEPT
                              !.pc = "running", !.cls = "FormFinder",
                              !.conf = conf, !.pkt = conf]
    /\ UNCHANGED notDefaults

\* RampGenerator.run(devs, conf) (formfinder.py:91-106): ff_conf is the
\* dictionary FormFinder.default_config names, eleven of its keys are
\* assigned, and the packet is built from it.
RampGeneratorRun ==
    /\ default_config.pc = "idle"
    /\ \E conf \in RampConfs \cup {default_config.RampGenerator} :
        LET ff_conf == [default_config.FormFinder EXCEPT
                           !.PWnum = conf.PWnum,
                           !.Vmin = conf.Vmin,
                           !.Vstep = conf.Vstep,
                           !.Vmax = conf.Vmax,
                           !.PWmin = conf.PW,
                           !.PWmax = conf.PW,
                           !.PWinter = conf.interpulse,
                           !.PWstep = 100,
                           !.Rthr = 1,
                           !.RthrP = 0,
                           !.pSR = conf.pSR]
        IN default_config' = [default_config EXCEPT
                                 !.FormFinder = ff_conf,
                                 !.pc = "running", !.cls = "RampGenerator",
                                 !.conf = conf, !.pkt = ff_conf]
    /\ UNCHANGED notDefaults

\* generic_triplet_runner has returned and run() returns.
RunReturns ==
    /\ default_config.pc = "running"
    /\ default_config' = [default_config EXCEPT !.pc = "idle"]
    /\ UNCHANGED notDefaults

DefaultsInit ==
    /\ EngineIdle
    /\ link = NewLink(DefaultConf)
    /\ runner = NewRunner(<< >>)
    /\ field = NewField("Integer", 0)
    /\ modules = NewRegistry
    /\ transport = NewTransport
    /\ links = NewLinks([l \in LinkNames |-> FALSE], 500)
    /\ default_config = NewDefaults
    /\ sequences = NewSequences([s \in SequenceNames |-> FALSE])

DefaultsNext ==
    \/ FormFinderRun
    \/ RampGeneratorRun
    \/ RunReturns

SpecDefaults == DefaultsInit /\ [][DefaultsNext]_vars

\* C30: running a module never mutates a shared default configuration.
\* Whatever modules have run, FormFinder.default_config and
\* RampGenerator.default_config hold the values they were defined with.
C30_DefaultConfigUnchanged ==
    /\ default_config.FormFinder = FormFinderDefault
    /\ default_config.RampGenerator = RampGeneratorDefault

(* ------------------- read mode and the sign of Vread ------------------- *)

\* C31: on a Link constructed with any configuration, before and after any
\* successful update_Vread, the 4-point read mode agrees with the sign of the
\* read voltage: read_mode is not TIA4P while Vread is negative and not
\* TIA4P_NEG while Vread is positive.
C31_ReadModeAgreesWithSign ==
    link.pc = "ready" =>
        /\ ~(link.config.read_mode = TIA4P /\ link.config.Vread < 0)
        /\ ~(link.config.read_mode = TIA4P_NEG /\ link.config.Vread > 0)

(* --------------- the control calls: further properties ----------------- *)

\* C33: wait_on_op and finish_op called from the caller thread never fail:
\* whatever the worker has done to the handle, a call that has ended has
\* returned normally.
C33_ControlCallsNeverRaise ==
    \A c \in Callers :
        (caller[c].pc = "returned"
            /\ caller[c].api \in {"wait_on_op", "finish_op"})
                => caller[c].res = "returned"

\* The sentinel of some run is in the buffer, or a worker that will add one
\* is still running.
SentinelToCome ==
    \/ \E i \in 1..Len(pending) : pending[i].ev = "sentinel"
    \/ \E w \in ThreadIds : Alive(w)

\* C34: a call of _discard_buffer made while no Operation handle exists
\* terminates and leaves the event buffer empty: while it takes items the
\* sentinel that ends its loop is in the buffer or still to come, and at the
\* step it returns the buffer is empty.
C34_DiscardTerminatesEmpty ==
    /\ [](\A c \in Callers :
            (caller[c].api = "_discard_buffer" /\ caller[c].saw = None
                /\ caller[c].pc = "drain") => SentinelToCome)
    /\ [][\A c \in Callers :
            (caller[c].api = "_discard_buffer" /\ caller[c].saw = None
                /\ caller[c].pc # "returned" /\ caller'[c].pc = "returned")
                    => buffer' = << >>]_vars

(* ------------------------------- Sequences ----------------------------- *)

\* self._mods and self._devs of Sequence s.
ModsOf(s) == sequences.heap[sequences.mods[s]]

DevsOf(s) == sequences.heap[sequences.devs[s]]

\* The record of add_module or add_device on Sequence s: the lists of each
\* Sequence when the call was made.
SeqCalled(s, op) ==
    [by |-> s, op |-> op, mods |-> [t \in SequenceNames |-> ModsOf(t)],
     devs |-> [t \in SequenceNames |-> DevsOf(t)]]

\* Sequence(name) or Sequence(name, mods, devs) (sequence.py:3-6) for the
\* name s: self._mods and self._devs are the lists passed, which the
\* application has just created empty, or the defaults of the parameters.
\* The lists only the replaced Sequence referred to are gone with it; the
\* defaults of the parameters stay with the function.
SequenceConstruct(s) ==
    \E explicit \in BOOLEAN :
        LET m == ListArg(s, "mods", explicit)
            d == ListArg(s, "devs", explicit)
            own == {ListArg(s, "mods", TRUE), ListArg(s, "devs", TRUE)}
        IN /\ sequences' =
                [heap |-> [o \in ListObjects |->
                            IF o \in own THEN << >> ELSE sequences.heap[o]],
                 mods |-> [sequences.mods EXCEPT ![s] = m],
                 devs |-> [sequences.devs EXCEPT ![s] = d],
                 last |-> [by |-> s, op |-> "__init__", mods |-> << >>,
                           devs |-> << >>]]
           /\ UNCHANGED notSequences

\* add_module(mod, conf) (sequence.py:16-19): without a conf the module's
\* default_config is taken; the pair is appended to self._mods.
AddModule(s) ==
    /\ Len(ModsOf(s)) < MaxSeqItems
    /\ \E mod \in SeqModules, conf \in {"None", "own"} :
        LET c == IF conf = "None" THEN "default_config" ELSE conf
        IN sequences' = [sequences EXCEPT
                            !.heap[sequences.mods[s]] = Append(@, <<mod, c>>),
                            !.last = SeqCalled(s, "add_module")]
    /\ UNCHANGED notSequences

\* add_device(dev) (sequence.py:21-22): dev is appended to self._devs.
AddDevice(s) ==
    /\ Len(DevsOf(s)) < MaxSeqItems
    /\ \E dev \in SeqDevices :
        sequences' = [sequences EXCEPT
                         !.heap[sequences.devs[s]] = Append(@, dev),
                         !.last = SeqCalled(s, "add_device")]
    /\ UNCHANGED notSequences

SequencesInit ==
    /\ EngineIdle
    /\ link = NewLink(DefaultConf)
    /\ runner = NewRunner(<< >>)
    /\ field = NewField("Integer", 0)
    /\ modules = NewRegistry
    /\ transport = NewTransport
    /\ links = NewLinks([l \in LinkNames |-> FALSE], 500)
    /\ default_config = NewDefaults
    /\ sequences \in {NewSequences(explicit) :
                        explicit \in [SequenceNames -> BOOLEAN]}

SequencesNext ==
    \E s \in SequenceNames :
        \/ SequenceConstruct(s)
        \/ AddModule(s)
        \/ AddDevice(s)

SpecSequences == SequencesInit /\ [][SequencesNext]_vars

\* C32: Sequence instances are independent.  After add_device or add_module
\* on a Sequence that was constructed with default arguments, the device
\* list and the module list of every other Sequence are what they were
\* before the call.
C32_OtherSequencesUnchanged ==
    LET s == sequences.last.by
    IN (/\ sequences.last.op \in {"add_device", "add_module"}
        /\ sequences.mods[s] = "mods"
        /\ sequences.devs[s] = "devs")
            => \A t \in SequenceNames \ {s} :
                /\ ModsOf(t) = sequences.last.mods[t]
                /\ DevsOf(t) = sequences.last.devs[t]

====
